---- MODULE Spec2Model ----
(***************************************************************************)
(* Smart Bin Worker (src/src/worker.js) over the bins table                *)
(* (src/unnamed/part_000).                                                 *)
(*                                                                         *)
(* Strings that the code inspects character by character (path segments,   *)
(* bin ids) are sequences of one-character strings.  JavaScript undefined  *)
(* and null of a text field are the tokens UNDEF and NULL; a missing row,  *)
(* a missing photo_key and a missing response part are the empty tuple.    *)
(***************************************************************************)
EXTENDS Integers, Sequences, FiniteSets, TLC

\* ---------------------------------------------------------------- bounds
MaxClock == 2
MaxOps == 2
MaxPieces == 4

\* ------------------------------------------------------------ value sets
UNDEF == "UNDEF"
NULL == "NULL"
Strs == {"", "x"}
MetaFields == {"case_code", "bin_type", "notes"}

SegApi == <<"a", "p", "i">>
SegBin == <<"b", "i", "n">>
SegPhoto == <<"p", "h", "o", "t", "o">>

\* the bin ids requests are made for: a plain one and one with a character
\* that a URL path carries verbatim and encodeURIComponent escapes
BinIds == {<<"b">>, <<"a", ":">>}
Reqs == {1, 2}
Bytes == {"B1", "B2"}
NoHeader == "NOHEADER"
ContentTypes == {NoHeader, "image/png"}

\* bodies of POST /bin/{id}: text that is not JSON, JSON null, a JSON number,
\* and JSON objects carrying at most one recognized key (value: null or string)
ObjBodies == {[kind |-> "obj", obj |-> << >>]}
                 \cup {[kind |-> "obj", obj |-> (f :> v)] :
                          f \in MetaFields, v \in Strs \cup {NULL}}
MetaBodies == {[kind |-> k, obj |-> << >>] : k \in {"text", "jnull", "jnum"}}
                 \cup ObjBodies

\* ------------------------------------------------------ encodeURIComponent
\* the characters in use: letters and digits stay, ":" and "%" are escaped
Unreserved == {"a", "b", "i", "n", "p", "h", "o", "t", "2", "3", "5", "A"}

EncodeChar(c) ==
    IF c \in Unreserved THEN <<c>>
    ELSE IF c = ":" THEN <<"%", "3", "A">>
    ELSE <<"%", "2", "5">>

RECURSIVE encodeURIComponent(_)
encodeURIComponent(s) ==
    IF s = << >> THEN << >>
    ELSE EncodeChar(Head(s)) \o encodeURIComponent(Tail(s))

\* ------------------------------------------------------------------ router
\* pathname.replace(/^\/|\/$/g, "").split("/").filter(Boolean)
Segments(pieces) == SelectSeq(pieces, LAMBDA s : s # << >>)

NoId == << >>
Route(h, id) == [handler |-> h, id |-> id]

Seg(segs, i) == IF i <= Len(segs) THEN segs[i] ELSE << >>

fetch(method, pieces, format) ==
    LET segs == Segments(pieces) IN
    IF Len(segs) = 0 THEN Route("health", NoId)
    ELSE IF Seg(segs, 1) = SegApi /\ Seg(segs, 2) = SegBin /\ Seg(segs, 3) # << >>
    THEN IF method = "GET" THEN Route("jsonGet", segs[3]) ELSE Route("405", NoId)
    ELSE IF Seg(segs, 1) = SegBin /\ Seg(segs, 2) # << >>
    THEN IF Seg(segs, 3) = SegPhoto
         THEN IF method = "GET" THEN Route("photoGet", segs[2])
              ELSE IF method = "POST" THEN Route("photoPost", segs[2])
              ELSE Route("405", NoId)
         ELSE IF Len(segs) = 2
         THEN IF method = "GET"
              THEN IF format = "json" THEN Route("jsonGet", segs[2])
                                      ELSE Route("htmlGet", segs[2])
              ELSE IF method = "POST" THEN Route("metaPost", segs[2])
              ELSE Route("404", NoId)
         ELSE Route("404", NoId)
    ELSE Route("404", NoId)

\* -------------------------------------------------------------- row store
\* SELECT * FROM bins WHERE bin_id = ?  (first row, or null: the empty tuple)
getBinRow(rws, binId) == IF binId \in DOMAIN rws THEN <<rws[binId]>> ELSE << >>

\* a ?? b falls through on undefined and on null only
Nullish(v) == v \in {UNDEF, NULL}

NullishOr(v) == v \in {UNDEF, NULL, ""}

\* data.f ?? existing?.f ?? null, for the three text fields
ResolveStrOr(d, existing, f) ==
    IF ~NullishOr(d) THEN d
    ELSE IF existing # << >> /\ ~NullishOr(existing[1][f]) THEN existing[1][f]
    ELSE NULL

ResolveStrNoExisting(d, existing, f) == IF ~Nullish(d) THEN d ELSE NULL

ResolveStr(d, existing, f) ==
    IF ~Nullish(d) THEN d
    ELSE IF existing # << >> /\ ~Nullish(existing[1][f]) THEN existing[1][f]
    ELSE NULL

\* data.photo_key ?? existing?.photo_key ?? null (no key: the empty tuple)
ResolveKey(d, existing) ==
    IF d # << >> THEN d
    ELSE IF existing # << >> THEN existing[1].photo_key
    ELSE << >>

Resolved(data, existing, now) ==
    [case_code |-> ResolveStr(data.case_code, existing, "case_code"),
     bin_type |-> ResolveStr(data.bin_type, existing, "bin_type"),
     notes |-> ResolveStr(data.notes, existing, "notes"),
     photo_key |-> ResolveKey(data.photo_key, existing),
     updated_at |-> now]

\* the UPDATE ... WHERE bin_id = ? or the INSERT of upsertBinRow, chosen by the
\* row read earlier (existing), with the fields resolved against that row
UpsertWriteIsolated(rws, binId, data, existing, now) ==
    IF binId \in DOMAIN rws
    THEN [rws EXCEPT ![binId] = Resolved(data, getBinRow(rws, binId), now)]
    ELSE (binId :> Resolved(data, << >>, now)) @@ rws

UpsertWrite(rws, binId, data, existing, now) ==
    IF existing # << >>
    THEN IF binId \in DOMAIN rws
         THEN [rws EXCEPT ![binId] = Resolved(data, existing, now)]
         ELSE rws
    ELSE (binId :> Resolved(data, existing, now)) @@ rws

\* INSERT of a bin_id that is already a PRIMARY KEY of the table fails
InsertConflict(rws, binId, existing) == existing = << >> /\ binId \in DOMAIN rws

\* ------------------------------------------------------------- blob store
BucketPutNothing(bkt, key, body, contentType) == bkt

BucketPut(bkt, key, body, contentType) ==
    (key :> [body |-> body, contentType |-> contentType]) @@
        [k \in DOMAIN bkt \ {key} |-> bkt[k]]

BucketGet(bkt, key) == IF key \in DOMAIN bkt THEN <<bkt[key]>> ELSE << >>

\* `bins/${encodeURIComponent(binId)}/${timestamp}.img`
PhotoKey(binId, timestamp) == <<encodeURIComponent(binId), timestamp>>

\* `/bin/${encodeURIComponent(binId)}/photo`, as path pieces
PhotoUrl(binId) == <<SegBin, encodeURIComponent(binId), SegPhoto>>

\* -------------------------------------------------------------- responses
NoResp == [status |-> 0, photo_url |-> << >>, body |-> "", ctype |-> ""]
Resp(status) == [NoResp EXCEPT !.status = status]

handleBinJsonGet(rws, binId) ==
    LET row == getBinRow(rws, binId) IN
    IF row = << >> THEN Resp(404)
    ELSE [Resp(200) EXCEPT
             !.photo_url = IF row[1].photo_key # << >> THEN PhotoUrl(binId) ELSE << >>]

handleBinHtmlGet(rws, binId) ==
    LET row == getBinRow(rws, binId) IN
    IF row = << >> THEN [Resp(404) EXCEPT !.ctype = "text/html"]
    ELSE [Resp(200) EXCEPT !.ctype = "text/html",
             !.photo_url = IF row[1].photo_key # << >> THEN PhotoUrl(binId) ELSE << >>]

\* the second half of handleBinPhotoGet: the object of the row's photo_key
PhotoGetObject(bkt, key) ==
    LET object == BucketGet(bkt, key) IN
    IF object = << >> THEN Resp(404)
    ELSE [Resp(200) EXCEPT !.body = object[1].body,
             !.ctype = IF object[1].contentType # "" THEN object[1].contentType
                       ELSE "image/jpeg"]

handleBinPhotoGet(rws, bkt, binId) ==
    LET row == getBinRow(rws, binId) IN
    IF row = << >> \/ row[1].photo_key = << >> THEN Resp(404)
    ELSE PhotoGetObject(bkt, row[1].photo_key)

\* ------------------------------------------------------------------ state
VARIABLES
    rows,       \* the bins table: bin_id -> row
    bucket,     \* BINS_BUCKET: key -> object
    clock,      \* what Date.now() returns
    req,        \* the requests in flight, with their locals and position
    ops,        \* requests received so far
    uploads,    \* history: the (key, bytes) of every put made by a photo POST
    lastPhoto,  \* history: bin id -> the last completed photo POST, unless a
                \*          later photo POST to that bin was received
    routeReq,   \* a request line under dispatch (method, path pieces, format)
    routeResp   \* what fetch dispatched it to

vars == <<rows, bucket, clock, req, ops, uploads, lastPhoto, routeReq, routeResp>>
store == <<rows, bucket, uploads, lastPhoto>>
routing == <<routeReq, routeResp>>

NoData == [case_code |-> UNDEF, bin_type |-> UNDEF, notes |-> UNDEF, photo_key |-> << >>]
NoBody == [kind |-> "none", obj |-> << >>]

IdleReq ==
    [pc |-> "idle", handler |-> "none", id |-> << >>, body |-> NoBody,
     bytes |-> "", hdr |-> "", ctype |-> "", data |-> NoData, now |-> 0,
     key |-> << >>, existing |-> << >>, wrote |-> FALSE, fault |-> "",
     resp |-> NoResp]

InFlight == {"ups_read", "ups_write", "ups_reread", "photo_put", "get_read", "photo_fetch"}

Methods == {"GET", "POST", "PUT", "DELETE"}
Formats == {"html", "json"}
PathPieces == {<< >>, SegApi, SegBin, SegPhoto, <<"b">>}
Paths == UNION {[1..n -> PathPieces] : n \in 0..MaxPieces}
RouteReqs == [method : Methods, pieces : Paths, format : Formats]
NoRoute == Route("none", NoId)

\* the stores as earlier requests left them at time 0: empty; bin "b" with a
\* note; bin "b" with a note and a photo
InitialStores ==
    LET noted == [case_code |-> NULL, bin_type |-> NULL, notes |-> "x",
                  photo_key |-> << >>, updated_at |-> 0]
        key0 == PhotoKey(<<"b">>, 0)
    IN  {[rows |-> << >>, bucket |-> << >>],
         [rows |-> (<<"b">> :> noted), bucket |-> << >>],
         [rows |-> (<<"b">> :> [noted EXCEPT !.photo_key = key0]),
          bucket |-> (key0 :> [body |-> "B1", contentType |-> "image/png"])]}

Init ==
    /\ \E s \in InitialStores :
          /\ rows = s.rows
          /\ bucket = s.bucket
          /\ uploads = {[key |-> k, body |-> s.bucket[k].body] : k \in DOMAIN s.bucket}
    /\ clock = 1
    /\ req = [r \in Reqs |-> IdleReq]
    /\ ops = 0
    /\ lastPhoto = << >>
    /\ routeReq = [method |-> "GET", pieces |-> << >>, format |-> "html"]
    /\ routeResp = NoRoute

\* body.f of a parsed JSON value: undefined on a missing key and on a primitive
Prop(body, f) ==
    IF body.kind = "obj" /\ f \in DOMAIN body.obj THEN body.obj[f] ELSE UNDEF

Done(rq, resp) == [rq EXCEPT !.pc = "done", !.resp = resp]
\* an uncaught exception ends the handler: its locals are gone; the request
\* line, the blob key it used and whether it wrote are kept as history
Throw(rq, what) ==
    [IdleReq EXCEPT !.pc = "done", !.resp = Resp(500), !.fault = what,
        !.handler = rq.handler, !.id = rq.id, !.body = rq.body, !.key = rq.key,
        !.wrote = rq.wrote]

\* handleBinMetaPost up to the first store operation of upsertBinRow
MetaPostBegin(binId, body, clk) ==
    LET rq == [IdleReq EXCEPT !.handler = "metaPost", !.id = binId, !.body = body] IN
    IF body.kind = "text" THEN Done(rq, Resp(400))
    ELSE IF body.kind = "jnull" THEN Throw(rq, "TypeError")
    ELSE [rq EXCEPT !.pc = "ups_read", !.now = clk,
             !.data = [case_code |-> Prop(body, "case_code"),
                       bin_type |-> Prop(body, "bin_type"),
                       notes |-> Prop(body, "notes"),
                       photo_key |-> << >>]]

\* handleBinPhotoPost up to BINS_BUCKET.put
PhotoPostBegin(binId, bytes, hdr, clk) ==
    [IdleReq EXCEPT !.handler = "photoPost", !.id = binId, !.bytes = bytes,
        !.hdr = hdr,
        !.ctype = IF hdr \in {NoHeader, ""} THEN "application/octet-stream" ELSE hdr,
        !.key = PhotoKey(binId, clk), !.pc = "photo_put"]

CanStart(r) == req[r].pc = "idle" /\ ops < MaxOps

StartMetaPost(r) ==
    /\ CanStart(r)
    /\ \E binId \in BinIds, body \in MetaBodies :
          LET rt == fetch("POST", <<SegBin, binId>>, "html") IN
          /\ rt.handler = "metaPost"
          /\ req' = [req EXCEPT ![r] = MetaPostBegin(rt.id, body, clock)]
    /\ ops' = ops + 1
    /\ UNCHANGED <<store, clock, routing>>

StartPhotoPost(r) ==
    /\ CanStart(r)
    /\ \E binId \in BinIds, bytes \in Bytes, hdr \in ContentTypes :
          LET rt == fetch("POST", <<SegBin, binId, SegPhoto>>, "html") IN
          /\ rt.handler = "photoPost"
          /\ req' = [req EXCEPT ![r] = PhotoPostBegin(rt.id, bytes, hdr, clock)]
          /\ lastPhoto' = [i \in DOMAIN lastPhoto \ {rt.id} |-> lastPhoto[i]]
    /\ ops' = ops + 1
    /\ UNCHANGED <<rows, bucket, uploads, clock, routing>>

GetPaths(binId) ==
    {[method |-> "GET", pieces |-> <<SegApi, SegBin, binId>>, format |-> "html"],
     [method |-> "GET", pieces |-> <<SegBin, binId>>, format |-> "json"],
     [method |-> "GET", pieces |-> <<SegBin, binId>>, format |-> "html"],
     [method |-> "GET", pieces |-> <<SegBin, binId, SegPhoto>>, format |-> "html"]}

StartGet(r) ==
    /\ CanStart(r)
    /\ \E binId \in BinIds : \E g \in GetPaths(binId) :
          LET rt == fetch(g.method, g.pieces, g.format) IN
          /\ rt.handler \in {"jsonGet", "htmlGet", "photoGet"}
          /\ req' = [req EXCEPT ![r] =
                        [IdleReq EXCEPT !.handler = rt.handler, !.id = rt.id,
                                        !.pc = "get_read"]]
    /\ ops' = ops + 1
    /\ UNCHANGED <<store, clock, routing>>

\* BINS_BUCKET.put takes effect; handleBinPhotoPost goes on into upsertBinRow
PhotoPut(r) ==
    /\ req[r].pc = "photo_put"
    /\ bucket' = BucketPut(bucket, req[r].key, req[r].bytes, req[r].ctype)
    /\ uploads' = uploads \cup {[key |-> req[r].key, body |-> req[r].bytes]}
    /\ req' = [req EXCEPT ![r].pc = "ups_read", ![r].now = clock,
                          ![r].data = [NoData EXCEPT !.photo_key = req[r].key]]
    /\ UNCHANGED <<rows, lastPhoto, clock, ops, routing>>

\* upsertBinRow: const existing = await getBinRow(env, binId)
UpsRead(r) ==
    /\ req[r].pc = "ups_read"
    /\ req' = [req EXCEPT ![r].pc = "ups_write",
                          ![r].existing = getBinRow(rows, req[r].id)]
    /\ UNCHANGED <<store, clock, ops, routing>>

\* upsertBinRow: the UPDATE or the INSERT runs
UpsWrite(r) ==
    /\ req[r].pc = "ups_write"
    /\ IF InsertConflict(rows, req[r].id, req[r].existing)
       THEN /\ req' = [req EXCEPT ![r] = Throw(req[r], "constraint")]
            /\ rows' = rows
       ELSE /\ rows' = UpsertWrite(rows, req[r].id, req[r].data, req[r].existing,
                                   req[r].now)
            /\ req' = [req EXCEPT ![r].pc = "ups_reread", ![r].wrote = TRUE]
    /\ UNCHANGED <<bucket, uploads, lastPhoto, clock, ops, routing>>

\* upsertBinRow: return await getBinRow(env, binId); the handler answers
UpsReread(r) ==
    /\ req[r].pc = "ups_reread"
    /\ LET row == getBinRow(rows, req[r].id) IN
       /\ req' = [req EXCEPT ![r] =
             Done(req[r], [Resp(200) EXCEPT
                             !.photo_url = IF req[r].handler = "photoPost"
                                           THEN PhotoUrl(req[r].id) ELSE << >>])]
       /\ lastPhoto' = IF req[r].handler = "photoPost"
                       THEN (req[r].id :> [body |-> req[r].bytes, hdr |-> req[r].hdr])
                                @@ lastPhoto
                       ELSE lastPhoto
    /\ UNCHANGED <<rows, bucket, uploads, clock, ops, routing>>

\* the getBinRow of a GET handler
GetRead(r) ==
    /\ req[r].pc = "get_read"
    /\ LET row == getBinRow(rows, req[r].id) IN
       req' = [req EXCEPT ![r] =
          IF req[r].handler = "jsonGet" THEN Done(req[r], handleBinJsonGet(rows, req[r].id))
          ELSE IF req[r].handler = "htmlGet"
               THEN Done(req[r], handleBinHtmlGet(rows, req[r].id))
          ELSE IF row = << >> \/ row[1].photo_key = << >> THEN Done(req[r], Resp(404))
          ELSE [req[r] EXCEPT !.pc = "photo_fetch", !.existing = row]]
    /\ UNCHANGED <<store, clock, ops, routing>>

\* handleBinPhotoGet: env.BINS_BUCKET.get(row.photo_key)
PhotoFetch(r) ==
    /\ req[r].pc = "photo_fetch"
    /\ req' = [req EXCEPT ![r] =
                  Done(req[r], PhotoGetObject(bucket, req[r].existing[1].photo_key))]
    /\ UNCHANGED <<store, clock, ops, routing>>

\* a store fault, or the host ending the request, between two store operations
Crash(r) ==
    /\ req[r].pc \in InFlight
    /\ req' = [req EXCEPT ![r] = Throw(req[r], "fault")]
    /\ UNCHANGED <<store, clock, ops, routing>>

\* the response has been delivered and the next request is awaited
Retire(r) ==
    /\ req[r].pc = "done"
    /\ req' = [req EXCEPT ![r] = IdleReq]
    /\ UNCHANGED <<store, clock, ops, routing>>

Tick ==
    /\ clock < MaxClock
    /\ clock' = clock + 1
    /\ UNCHANGED <<store, req, ops, routing>>

\* the requests of Reqs running concurrently, one request each
Next ==
    \/ \E r \in Reqs :
          \/ StartMetaPost(r) \/ StartPhotoPost(r) \/ StartGet(r)
          \/ PhotoPut(r) \/ UpsRead(r) \/ UpsWrite(r) \/ UpsReread(r)
          \/ GetRead(r) \/ PhotoFetch(r) \/ Crash(r)
    \/ Tick

Spec == Init /\ [][Next]_vars

\* up to MaxOps write requests handled one at a time, each to its end
NextSeq ==
    \/ StartMetaPost(1) \/ StartPhotoPost(1)
    \/ PhotoPut(1) \/ UpsRead(1) \/ UpsWrite(1) \/ UpsReread(1)
    \/ Retire(1)
    \/ Tick

SpecSeq == Init /\ [][NextSeq]_vars

\* the router alone, on every request line of RouteReqs
InitRoute ==
    /\ rows = << >>
    /\ bucket = << >>
    /\ clock = 1
    /\ req = [r \in Reqs |-> IdleReq]
    /\ ops = 0
    /\ uploads = {}
    /\ lastPhoto = << >>
    /\ routeReq \in RouteReqs
    /\ routeResp = NoRoute

Dispatch ==
    /\ routeResp = NoRoute
    /\ routeResp' = fetch(routeReq.method, routeReq.pieces, routeReq.format)
    /\ UNCHANGED <<store, clock, req, ops, routeReq>>

SpecRoute == InitRoute /\ [][Dispatch]_vars

\* ================================================================= claims
\* a request that has run the UPDATE or INSERT of its upsert
Wrote(r) == req[r].wrote

\* the step in which request r runs the UPDATE or INSERT of its upsert
WriteStep(r) == req[r].pc = "ups_write" /\ req'[r].pc = "ups_reread"

\* the key f is in the JSON object a metadata POST carries
InPayload(r, f) == req[r].body.kind = "obj" /\ f \in DOMAIN req[r].body.obj

\* the value of field f in the row the request read (null without a row)
Before(r, f) == IF req[r].existing # << >> THEN req[r].existing[1][f] ELSE NULL

OldField(binId, f) == IF binId \in DOMAIN rows THEN rows[binId][f] ELSE NULL
OldKey(binId) == IF binId \in DOMAIN rows THEN rows[binId].photo_key ELSE << >>

\* C1 as stated: the write of a metadata upsert stores, in every recognized
\* field whose key is in the payload, the value the payload carries, whatever
\* it is (a JSON null is stored as null).
C1_PresenceDecides ==
    [][\A r \in Reqs : \A f \in MetaFields :
          (WriteStep(r) /\ req[r].handler = "metaPost" /\ InPayload(r, f))
              => rows'[req[r].id][f] = req[r].body.obj[f]]_vars

\* C1 amended: the write of a metadata upsert stores, in every recognized field
\* whose key is in the payload with a string value (the empty string
\* included), that string; a key carrying JSON null is treated like a missing
\* key, the field taking the value of the row the upsert read (null if it read
\* no row).
C1_StringOverwrites ==
    [][\A r \in Reqs : \A f \in MetaFields :
          (WriteStep(r) /\ req[r].handler = "metaPost" /\ InPayload(r, f))
              => rows'[req[r].id][f] =
                    IF req[r].body.obj[f] # NULL THEN req[r].body.obj[f]
                    ELSE Before(r, f)]_vars

\* an upsert of {notes: ""} over a row whose notes were "x" left notes empty
C1_Witness ==
    \E r \in Reqs :
        /\ req[r].handler = "metaPost" /\ Wrote(r) /\ InPayload(r, "notes")
        /\ req[r].body.obj["notes"] = ""
        /\ req[r].existing # << >> /\ req[r].existing[1].notes = "x"
        /\ rows[req[r].id].notes = ""

\* C2: a write handled alone leaves every field whose key is not in the update
\* as it was (null if the write created the row): a metadata POST keeps
\* photo_key, a photo POST keeps case_code, bin_type and notes, the rows of the
\* other bins stay as they are, and no other step changes the table.
C2_Frame ==
    [][\A r \in Reqs :
          IF WriteStep(r)
          THEN LET binId == req[r].id IN
               /\ DOMAIN rows' = DOMAIN rows \cup {binId}
               /\ \A other \in DOMAIN rows \ {binId} : rows'[other] = rows[other]
               /\ \A f \in MetaFields :
                     ~(req[r].handler = "metaPost" /\ InPayload(r, f))
                         => rows'[binId][f] = OldField(binId, f)
               /\ req[r].handler # "photoPost"
                     => rows'[binId].photo_key = OldKey(binId)
          ELSE (\A q \in Reqs : ~WriteStep(q)) => rows' = rows]_vars

\* an upsert of {bin_type: "x"} over a row whose notes were "x" kept the notes
C2_Witness ==
    \E r \in Reqs :
        /\ req[r].handler = "metaPost" /\ Wrote(r)
        /\ InPayload(r, "bin_type") /\ ~InPayload(r, "notes")
        /\ req[r].existing # << >> /\ req[r].existing[1].notes = "x"
        /\ rows[req[r].id].bin_type = "x" /\ rows[req[r].id].notes = "x"

\* C3: the stored updated_at of a bin never decreases, whatever the
\* interleaving of the write requests (the clock never goes backwards).
C3_UpdatedAtMonotone ==
    [][\A binId \in DOMAIN rows :
          binId \in DOMAIN rows' /\ rows'[binId].updated_at >= rows[binId].updated_at]_vars

\* C4: a POST /bin/{id} whose body is not a JSON object is answered 400 and
\* writes nothing to the table.
C4_BadBodyRejected ==
    \A r \in Reqs :
        (req[r].handler = "metaPost" /\ req[r].body.kind \in {"text", "jnull", "jnum"})
            => /\ ~Wrote(r)
               /\ (req[r].pc = "done" /\ req[r].fault # "fault")
                      => req[r].resp.status = 400

\* the route table of the claim: the three patterns and the methods each lists
IsApiBin(segs) == Len(segs) = 3 /\ segs[1] = SegApi /\ segs[2] = SegBin
IsBinPhoto(segs) == Len(segs) = 3 /\ segs[1] = SegBin /\ segs[3] = SegPhoto
IsBin(segs) == Len(segs) = 2 /\ segs[1] = SegBin
KnownPath(segs) == IsApiBin(segs) \/ IsBinPhoto(segs) \/ IsBin(segs)
ListedMethods(segs) == IF IsApiBin(segs) THEN {"GET"} ELSE {"GET", "POST"}

\* C5: a request on a known path with a method the table does not list for it
\* is answered 405, and 404 is answered only to a path that matches no pattern.
C5_WrongMethodIs405 ==
    routeResp # NoRoute =>
        LET segs == Segments(routeReq.pieces) IN
        /\ (KnownPath(segs) /\ routeReq.method \notin ListedMethods(segs))
               => routeResp.handler = "405"
        /\ routeResp.handler = "404" => ~KnownPath(segs)

\* C6: once a photo POST with bytes B and content type T to a bin has
\* completed, and until a later photo POST to it, the JSON GET reports
\* photo_url /bin/{id}/photo and GET /bin/{id}/photo answers 200 with B and T.
C6_PhotoRoundTrip ==
    \A binId \in DOMAIN lastPhoto :
        lastPhoto[binId].hdr # NoHeader =>
            LET get == fetch("GET", <<SegBin, binId, SegPhoto>>, "html")
                photo == handleBinPhotoGet(rows, bucket, get.id)
            IN  /\ handleBinJsonGet(rows, binId).photo_url = <<SegBin, binId, SegPhoto>>
                /\ get.handler = "photoGet"
                /\ photo.status = 200
                /\ photo.body = lastPhoto[binId].body
                /\ photo.ctype = lastPhoto[binId].hdr

\* C7: every upload has a blob key of its own, so the blob store holds the
\* bytes of every upload ever made.
C7_UploadsKept ==
    /\ \A u \in uploads : u.key \in DOMAIN bucket /\ bucket[u.key].body = u.body
    /\ \A u, v \in uploads : u # v => u.key # v.key

\* C8: every row whose photo_key is not null references a key that has a blob
\* in the blob store, in every state the endpoints reach, requests that stop
\* half-way and interleaved requests included.
C8_PhotoKeyHasBlob ==
    \A binId \in DOMAIN rows :
        rows[binId].photo_key # << >> => rows[binId].photo_key \in DOMAIN bucket

\* a row references a photo while another photo POST stopped after its put
C8_Witness ==
    /\ \E binId \in DOMAIN rows : rows[binId].photo_key # << >>
    /\ \E r \in Reqs :
          /\ req[r].handler = "photoPost" /\ req[r].fault = "fault"
          /\ ~Wrote(r) /\ req[r].key \in DOMAIN bucket

\* C9: an upsert writes the fields it resolved against the row it read, with no
\* isolation: for every field the request does not set, the row after its
\* write holds the value of the row the request read earlier, whatever other
\* requests have stored in between.
C9_WriteFromSnapshot ==
    [][\A r \in Reqs :
          WriteStep(r) =>
              /\ \A f \in MetaFields :
                    Nullish(req[r].data[f]) => rows'[req[r].id][f] = Before(r, f)
              /\ req[r].data.photo_key = << >> =>
                    rows'[req[r].id].photo_key =
                        IF req[r].existing # << >> THEN req[r].existing[1].photo_key
                        ELSE << >>]_vars

\* the upsert of request r sets field f
Sets(r, f) ==
    IF f = "photo_key" THEN req[r].data.photo_key # << >>
    ELSE ~Nullish(req[r].data[f])

\* two upserts to the same existing bin both answered 200; they read the same
\* row; the first set a field the second did not, and that field is back at
\* the value it had before both, the second's field being stored
C9_LostUpdate ==
    \E r, q \in Reqs : \E f, g \in MetaFields \cup {"photo_key"} :
        /\ r # q /\ f # g /\ req[r].id = req[q].id
        /\ req[r].pc = "done" /\ req[r].resp.status = 200 /\ Wrote(r)
        /\ req[q].pc = "done" /\ req[q].resp.status = 200 /\ Wrote(q)
        /\ req[r].existing # << >> /\ req[r].existing = req[q].existing
        /\ Sets(r, f) /\ req[r].data[f] # req[r].existing[1][f]
        /\ ~Sets(q, f)
        /\ Sets(q, g) /\ req[q].data[g] # req[q].existing[1][g]
        /\ rows[req[r].id][f] = req[r].existing[1][f]
        /\ rows[req[r].id][g] = req[q].data[g]

\* C10: no upsert runs its INSERT for a bin id that has a row at that moment,
\* so no INSERT fails on the primary key, under any interleaving.
C10_InsertNeverConflicts ==
    \A r \in Reqs :
        /\ req[r].fault # "constraint"
        /\ (req[r].pc = "ups_write" /\ req[r].existing = << >>)
               => req[r].id \notin DOMAIN rows

====
